---- MODULE Spec2Model ----
(***************************************************************************)
(* A model of the SQL dump anonymizer (src/src/main.rs).                   *)
(*                                                                         *)
(* The dump is a sequence of bytes (integers 0..255).  The syntax tree and *)
(* the query engine are external: the model lets them yield any node whose *)
(* boundaries lie on the tree's cut points, one capture at a time, the way *)
(* the query cursors are iterated.  The reader is the buffered file, seen  *)
(* through its stream position.  Standard output is the byte sequence      *)
(* written so far.                                                         *)
(***************************************************************************)
EXTENDS Integers, Sequences, FiniteSets, TLC

\* ------------------------------------------------------------------ bounds

\* longest dump explored under Spec
MaxLen == 2
\* most items the two query cursors yield in one run (cache pass + rewrite)
MaxEvents == 2
\* node identities the internal query may capture
MaxNodes == 2
\* longest raw string explored under SpecCodec
MaxRaw == 2

\* ------------------------------------------------------------------- bytes

\* the quote character MySqlString::fmt wraps the text in
QUOTE == 39

RECURSIVE Concat(_)
\* the concatenation of a sequence of byte sequences (by halves, which keeps
\* the evaluation shallow)
Concat(ss) ==
    IF Len(ss) = 0 THEN <<>>
    ELSE IF Len(ss) = 1 THEN ss[1]
    ELSE LET h == Len(ss) \div 2
         IN Concat(SubSeq(ss, 1, h)) \o Concat(SubSeq(ss, h + 1, Len(ss)))

\* bytes [lo, hi) of file f (offsets count from 0)
Slice(f, lo, hi) == SubSeq(f, lo + 1, hi)

\* one lower-case hexadecimal digit
HexDigit(n) == IF n < 10 THEN 48 + n ELSE 87 + n

\* <[u8]>::escape_ascii on one byte, as main.rs:357 applies it
EscapeByte(b) ==
    CASE b = 9  -> <<92, 116>>
      [] b = 13 -> <<92, 114>>
      [] b = 10 -> <<92, 110>>
      [] b = 39 -> <<92, 39>>
      [] b = 34 -> <<92, 34>>
      [] b = 92 -> <<92, 92>>
      [] b >= 32 /\ b <= 126 /\ b \notin {39, 34, 92} -> <<b>>
      [] OTHER -> <<92, 120, HexDigit(b \div 16), HexDigit(b % 16)>>

\* self.0.as_bytes().escape_ascii()
EscapeAscii(x) == Concat([i \in 1..Len(x) |-> EscapeByte(x[i])])

\* impl fmt::Display for MySqlString: '<escaped text>'
Display(x) == <<QUOTE>> \o EscapeAscii(x) \o <<QUOTE>>

Err == [ok |-> FALSE]

\* the character a backslash escape stands for in the MySQL dialect
\* (\0 \b \n \r \t \Z; any other character stands for itself)
Unescape(c) ==
    CASE c = 48  -> 0
      [] c = 98  -> 8
      [] c = 110 -> 10
      [] c = 114 -> 13
      [] c = 116 -> 9
      [] c = 90  -> 26
      [] OTHER   -> c

\* One step of the tokenizer over a literal, on byte c.  st.m is where it
\* stands: "start" before the opening quote (blanks are skipped), "str"
\* inside the string opened with quote st.q, "esc" after a backslash, "quote"
\* after a quote inside the string (the closing one unless it is doubled),
\* "end" past the closing quote, "err" once the text cannot be tokenized.  What
\* follows the literal must tokenize, which text holding a further quote
\* character may not (taken as an error here).  out is what the step adds to
\* the string's value.
QuotedStep(st, c) ==
    LET go(m, out) == [m |-> m, q |-> st.q, out |-> out] IN
    CASE st.m = "start" ->
            IF c \in {32, 9, 10, 13} THEN go("start", <<>>)
            ELSE IF c \in {39, 34} THEN [m |-> "str", q |-> c, out |-> <<>>]
            ELSE go("err", <<>>)
      [] st.m = "str" ->
            IF c = st.q THEN go("quote", <<>>)
            ELSE IF c = 92 THEN go("esc", <<>>)
            ELSE go("str", <<c>>)
      [] st.m = "esc" -> go("str", <<Unescape(c)>>)
      [] st.m = "quote" ->
            IF c = st.q THEN go("str", <<c>>)
            ELSE IF c \in {39, 34, 96} THEN go("err", <<>>)
            ELSE go("end", <<>>)
      [] st.m = "end" ->
            IF c \in {39, 34, 96} THEN go("err", <<>>) ELSE go("end", <<>>)
      [] OTHER -> go("err", <<>>)

RECURSIVE ScanQuoted(_, _, _, _)
\* the tokenizer run over bytes lo..hi of s from state st (by halves)
ScanQuoted(s, lo, hi, st) ==
    IF lo > hi THEN [st EXCEPT !.out = <<>>]
    ELSE IF lo = hi THEN QuotedStep(st, s[lo])
    ELSE LET mid == (lo + hi) \div 2
             l == ScanQuoted(s, lo, mid, st)
         IN IF l.m = "err" THEN l
            ELSE LET r == ScanQuoted(s, mid + 1, hi, [l EXCEPT !.out = <<>>])
                 IN [r EXCEPT !.out = l.out \o r.out]

RECURSIVE SkipWs(_, _)
\* the index of the first non-blank byte of s at or after i
SkipWs(s, i) ==
    IF i <= Len(s) /\ s[i] \in {32, 9, 10, 13} THEN SkipWs(s, i + 1) ELSE i

\* impl FromStr for MySqlString: the first token of s must be a quoted
\* string ('...' or "..."), whose value is returned.  A bare word is returned
\* as it stands by the library; it is never JSON (true, false and null are
\* keywords), so it ends the same way as Err.
FromStrMySql(s) ==
    LET r == ScanQuoted(s, 1, Len(s), [m |-> "start", q |-> 0, out |-> <<>>]) IN
    IF r.m \in {"quote", "end"} THEN [ok |-> TRUE, val |-> r.out] ELSE Err

\* -------------------------------------------------------------------- JSON
\* serde_json::Value over the documents the model draws: objects, strings and
\* unsigned integers.  An object is a function from its keys (byte strings)
\* to values, the way serde_json's Map keeps one value per key, keys sorted.
\* An unsigned integer is kept as its decimal digits.

Str(s) == [t |-> "str", v |-> s]
Num(n) == [t |-> "num", v |-> n]
Obj(m) == [t |-> "obj", v |-> m]

\* A u32 is kept as its two 16-bit halves, [hi, lo]: TLC's integers
\* are 32-bit signed.
RECURSIVE U32Decimal(_)
\* a u32 in decimal, as `{}` formats it (long division by ten)
U32Decimal(n) ==
    LET t == (n.hi % 10) * 65536 + n.lo
        q == [hi |-> n.hi \div 10, lo |-> t \div 10]
    IN IF q.hi = 0 /\ q.lo = 0 THEN <<48 + (t % 10)>>
       ELSE Append(U32Decimal(q), 48 + (t % 10))

\* serde_json's escaping of one byte of a string
JsonEscapeByte(b) ==
    CASE b = 34 -> <<92, 34>>
      [] b = 92 -> <<92, 92>>
      [] b = 8  -> <<92, 98>>
      [] b = 12 -> <<92, 102>>
      [] b = 10 -> <<92, 110>>
      [] b = 13 -> <<92, 114>>
      [] b = 9  -> <<92, 116>>
      [] b < 32 /\ b \notin {8, 9, 10, 12, 13} ->
             <<92, 117, 48, 48, HexDigit(b \div 16), HexDigit(b % 16)>>
      [] OTHER -> <<b>>

JsonString(s) == <<34>> \o Concat([i \in 1..Len(s) |-> JsonEscapeByte(s[i])]) \o <<34>>

RECURSIVE SeqLess(_, _)
\* byte-wise lexicographic order, the order of the Map's keys
SeqLess(a, b) ==
    IF a = <<>> THEN b # <<>>
    ELSE IF b = <<>> THEN FALSE
    ELSE IF Head(a) # Head(b) THEN Head(a) < Head(b)
    ELSE SeqLess(Tail(a), Tail(b))

RECURSIVE SortedKeys(_)
SortedKeys(ks) ==
    IF ks = {} THEN <<>>
    ELSE LET k == CHOOSE x \in ks : \A y \in ks \ {x} : SeqLess(x, y)
         IN <<k>> \o SortedKeys(ks \ {k})

RECURSIVE ValueToString(_)
\* Value::to_string: compact, keys in order
ValueToString(val) ==
    CASE val.t = "str" -> JsonString(val.v)
      [] val.t = "num" -> val.v
      [] val.t = "obj" ->
            LET ks == SortedKeys(DOMAIN val.v)
                member(i) == (IF i > 1 THEN <<44>> ELSE <<>>)
                             \o JsonString(ks[i]) \o <<58>> \o ValueToString(val.v[ks[i]])
            IN <<123>> \o Concat([i \in 1..Len(ks) |-> member(i)]) \o <<125>>

HexValue(c) ==
    CASE c >= 48 /\ c <= 57  -> c - 48
      [] c >= 97 /\ c <= 102 -> c - 87
      [] c >= 65 /\ c <= 70  -> c - 55
      [] OTHER -> -1

RECURSIVE ScanJsonString(_, _, _)
\* inside a JSON string, at index i of s
ScanJsonString(s, i, acc) ==
    IF i > Len(s) THEN Err
    ELSE IF s[i] = 34 THEN [ok |-> TRUE, val |-> Str(acc), next |-> i + 1]
    ELSE IF s[i] < 32 THEN Err
    ELSE IF s[i] # 92 THEN ScanJsonString(s, i + 1, Append(acc, s[i]))
    ELSE IF i = Len(s) THEN Err
    ELSE LET c == s[i + 1] IN
         CASE c \in {34, 92, 47} -> ScanJsonString(s, i + 2, Append(acc, c))
           [] c = 98  -> ScanJsonString(s, i + 2, Append(acc, 8))
           [] c = 102 -> ScanJsonString(s, i + 2, Append(acc, 12))
           [] c = 110 -> ScanJsonString(s, i + 2, Append(acc, 10))
           [] c = 114 -> ScanJsonString(s, i + 2, Append(acc, 13))
           [] c = 116 -> ScanJsonString(s, i + 2, Append(acc, 9))
           [] c = 117 ->
                 \* \u00XX below 0x80, the only form to_string writes
                 IF i + 5 > Len(s) THEN Err
                 ELSE LET h == [k \in 1..4 |-> HexValue(s[i + 1 + k])]
                          code == ((h[1] * 16 + h[2]) * 16 + h[3]) * 16 + h[4]
                      IN IF (\E k \in 1..4 : h[k] < 0) \/ code >= 128 THEN Err
                         ELSE ScanJsonString(s, i + 6, Append(acc, code))
           [] OTHER -> Err

RECURSIVE ScanNumber(_, _, _)
ScanNumber(s, i, acc) ==
    IF i <= Len(s) /\ s[i] >= 48 /\ s[i] <= 57
    THEN ScanNumber(s, i + 1, Append(acc, s[i]))
    ELSE [ok |-> TRUE, val |-> Num(acc), next |-> i]

RECURSIVE ParseValue(_, _)
RECURSIVE ParseMembers(_, _, _)

\* a value at index i of s (blanks skipped by the caller)
ParseValue(s, i) ==
    IF i > Len(s) THEN Err
    ELSE CASE s[i] = 34 -> ScanJsonString(s, i + 1, <<>>)
           [] s[i] >= 48 /\ s[i] <= 57 ->
                 IF s[i] = 48 /\ i < Len(s) /\ s[i + 1] >= 48 /\ s[i + 1] <= 57
                 THEN Err
                 ELSE ScanNumber(s, i, <<>>)
           [] s[i] = 123 ->
                 LET j == SkipWs(s, i + 1) IN
                 IF j <= Len(s) /\ s[j] = 125
                 THEN [ok |-> TRUE, val |-> Obj(<<>>), next |-> j + 1]
                 ELSE ParseMembers(s, j, <<>>)
           [] OTHER -> Err

\* the members of an object from index i on, m holding those read so far;
\* a repeated key keeps its last value
ParseMembers(s, i, m) ==
    IF i > Len(s) \/ s[i] # 34 THEN Err
    ELSE LET k == ScanJsonString(s, i + 1, <<>>) IN
    IF ~k.ok THEN Err
    ELSE LET c == SkipWs(s, k.next) IN
    IF c > Len(s) \/ s[c] # 58 THEN Err
    ELSE LET x == ParseValue(s, SkipWs(s, c + 1)) IN
    IF ~x.ok THEN Err
    ELSE LET m2 == (k.val.v :> x.val) @@ m
             e == SkipWs(s, x.next)
         IN IF e > Len(s) THEN Err
            ELSE IF s[e] = 125 THEN [ok |-> TRUE, val |-> Obj(m2), next |-> e + 1]
            ELSE IF s[e] = 44 THEN ParseMembers(s, SkipWs(s, e + 1), m2)
            ELSE Err

\* serde_json::from_str: one value, nothing but blanks after it
FromStrJson(s) ==
    LET r == ParseValue(s, SkipWs(s, 1)) IN
    IF ~r.ok THEN Err
    ELSE IF SkipWs(s, r.next) <= Len(s) THEN Err
    ELSE [ok |-> TRUE, val |-> r.val]

\* -------------------------------------------------------------- directives

\* impl FromStr for Directive; "None" is the Err the caller turns into None
DirectiveFromStr(s) ==
    CASE s = "address"        -> "Address"
      [] s = "biological_sex" -> "BiologicalSex"
      [] s = "bic"            -> "Bic"
      [] s = "date"           -> "Date"
      [] s = "email"          -> "Email"
      [] s = "first_name"     -> "FirstName"
      [] s = "iban"           -> "Iban"
      [] s = "last_name"      -> "LastName"
      [] s = "name"           -> "Name"
      [] s = "order"          -> "Order"
      [] s = "password"       -> "Password"
      [] s = "phone_number"   -> "PhoneNumber"
      [] s = "u32"            -> "U32"
      [] s = "vat_no"         -> "VatNo"
      [] OTHER                -> "None"

\* what one handler invocation may draw from the random sources: a generated
\* string (every faker string is drawn as `name`), a coin and a u32
Randoms ==
    { [name |-> <<65, 108>>,     flag |-> TRUE,  num |-> [hi |-> 0, lo |-> 7]],
      [name |-> <<79, 39, 78>>,  flag |-> FALSE, num |-> [hi |-> 65535, lo |-> 65535]] }

K_customerDetails ==
    <<99, 117, 115, 116, 111, 109, 101, 114, 68, 101, 116, 97, 105, 108, 115>>
K_firstName == <<102, 105, 114, 115, 116, 78, 97, 109, 101>>
K_lastName  == <<108, 97, 115, 116, 78, 97, 109, 101>>
K_email     == <<101, 109, 97, 105, 108>>
K_gender    == <<103, 101, 110, 100, 101, 114>>
K_height    == <<104, 101, 105, 103, 104, 116>>
K_weight    == <<119, 101, 105, 103, 104, 116>>
K_birthDate == <<98, 105, 114, 116, 104, 68, 97, 116, 101>>
S_male      == <<109, 97, 108, 101>>
S_female    == <<102, 101, 109, 97, 108, 101>>

\* the json!({...}) of the Address arm
AddressJson(r) ==
    Obj(  (<<115, 116, 114, 101, 101, 116, 95, 110, 97, 109, 101>> :> Str(r.name))
       @@ (<<115, 116, 114, 101, 101, 116, 95, 100, 101, 116, 97, 105, 108, 115>>
               :> Str(r.name))
       @@ (<<122, 105, 112, 95, 99, 111, 100, 101>> :> Str(r.name))
       @@ (<<99, 105, 116, 121>> :> Str(r.name))
       @@ (<<99, 111, 117, 110, 116, 114, 121>> :> Str(r.name))
       @@ (<<115, 116, 97, 116, 101>> :> Str(r.name)) )

\* what each arm of anonymize other than Order writes
Generate(d, r) ==
    CASE d = "Address" -> Display(ValueToString(AddressJson(r)))
      [] d = "BiologicalSex" ->
            IF r.flag THEN <<39, 77, 97, 108, 101, 39>>
                      ELSE <<39, 70, 101, 109, 97, 108, 101, 39>>
      [] d \in {"Bic", "Date", "Email", "FirstName", "LastName", "Name",
                "PhoneNumber"} -> Display(r.name)
      [] d = "Iban" ->
            <<39, 65, 84, 48, 49, 50, 51, 52, 53, 54, 55, 56, 57, 48, 49, 50, 51,
              52, 53, 54, 55, 56, 57, 39>>
      [] d = "Password" ->
            <<39, 36, 50, 121, 36, 49, 48, 36, 120, 79, 71, 79, 46, 115, 57, 47,
              84, 48, 54, 98, 73, 117, 67, 121, 100, 78, 69, 68, 55, 117, 112, 53,
              74, 87, 108, 88, 87, 112, 47, 107, 75, 55, 67, 56, 68, 67, 55, 54,
              107, 87, 121, 89, 114, 66, 53, 115, 57, 114, 110, 65, 117, 39>>
      [] d = "U32" -> U32Decimal(r.num)
      [] d = "VatNo" -> <<39, 65, 84, 48, 49, 50, 51, 52, 53, 54, 55, 39>>

\* One step of UTF-8 validation: k is the number of continuation bytes still
\* due (-1 once the text is invalid)
Utf8Step(k, b) ==
    CASE k < 0 -> -1
      [] k > 0 -> IF b >= 128 /\ b <= 191 THEN k - 1 ELSE -1
      [] b < 128 -> 0
      [] b >= 194 /\ b <= 223 -> 1
      [] b >= 224 /\ b <= 239 -> 2
      [] b >= 240 /\ b <= 244 -> 3
      [] OTHER -> -1

RECURSIVE Utf8Scan(_, _, _, _)
Utf8Scan(s, lo, hi, k) ==
    IF lo > hi THEN k
    ELSE IF lo = hi THEN Utf8Step(k, s[lo])
    ELSE LET mid == (lo + hi) \div 2
             l == Utf8Scan(s, lo, mid, k)
         IN IF l < 0 THEN l ELSE Utf8Scan(s, mid + 1, hi, l)

\* str::from_utf8 accepts s
Utf8Valid(s) == Utf8Scan(s, 1, Len(s), 0) = 0

\* the json!({...}) that replaces customerDetails
CustomerDetails(r) ==
    Obj(  (K_firstName :> Str(r.name))
       @@ (K_lastName  :> Str(r.name))
       @@ (K_email     :> Str(r.name))
       @@ (K_gender    :> Str(IF r.flag THEN S_male ELSE S_female))
       @@ (K_height    :> Num(U32Decimal(r.num)))
       @@ (K_weight    :> Num(U32Decimal(r.num)))
       @@ (K_birthDate :> Str(r.name)) )

\* the Order arm after the read: decode the span, parse it, replace
\* customerDetails, write the value back as a literal.  Err is any of the
\* arm's `?` failures.
OrderRewrite(buf, r) ==
    IF ~Utf8Valid(buf) THEN Err
    ELSE LET string == FromStrMySql(buf) IN
    IF ~string.ok THEN Err
    ELSE LET value == FromStrJson(string.val) IN
    IF ~value.ok THEN Err
    ELSE IF value.val.t # "obj" THEN Err
    ELSE IF K_customerDetails \notin DOMAIN value.val.v THEN Err
    ELSE LET replaced == Obj((K_customerDetails :> CustomerDetails(r)) @@ value.val.v)
         IN [ok |-> TRUE, out |-> Display(ValueToString(replaced))]

\* ------------------------------------------------------------------- state

VARIABLES
    input,      \* the dump file's bytes
    cuts,       \* the offsets at which nodes of the syntax tree start and end
    cli_query,  \* whether --query was given (cli.query is Some)
    run,        \* one run of main
    run2,       \* a second run on the same dump and query (SpecPair only)
    codec       \* a literal being encoded and decoded (SpecCodec only)

vars == <<input, cuts, cli_query, run, run2, codec>>

\* The fields of a run:
\*   pc        where main is: "cache" (the loop of lines 87-105), "stream"
\*             (the loop of lines 125-151), "done" (Ok(())), "fatal" (an Err
\*             returned) or "idle" (no run)
\*   pos       reader's stream position
\*   stdout    the bytes written to standard output
\*   texts     the HashMap texts: node id -> bytes
\*   nodes     the span <<start_byte, end_byte>> of each node the internal
\*             query has captured
\*   compiled  what Query::new(language, &query_source) returned at line
\*             107: "pending" before the call, then "ok" or "error"
\*   err       the error main returned: "" (none), "query" (line 107),
\*             "unexpected capture node" (the bail! of line 142) or "anonymize"
\*             (a `?` inside anonymize)
\*   recognized  the captures yielded so far whose label is a directive
\*   n         the items the query cursors have yielded so far
\*   cap       the item yielded last
\*   segs      what the rewrite loop did, in order: a verbatim copy or a
\*             handler's replacement, each with the reader's position before
\*             (lo) and after (hi) and the number of bytes written (len)
\*   ignored   the spans of the captures skipped for having no directive

\* the labels the user query's captures carry in the runs explored
QueryLabels == {"u32", "order", "unknown_directive"}

\* the nodes the tree can hold: any span whose ends are cut points
Spans == {sp \in cuts \X cuts : sp[1] <= sp[2]}

NodeIds == 1..MaxNodes

NoCap == [q |-> "none"]

\* main up to line 83: the file is open and parsed; the parser's callback has
\* left the reader wherever it last sought (p)
StartRun(p) ==
    [pc |-> "cache", pos |-> p, stdout |-> <<>>, texts |-> <<>>, nodes |-> <<>>,
     compiled |-> "pending", err |-> "", n |-> 0, recognized |-> 0, cap |-> NoCap,
     segs |-> <<>>, ignored |-> {}]

IdleRun == [StartRun(0) EXCEPT !.pc = "idle"]

IdleCodec == [pc |-> "idle", raw |-> <<>>, text |-> <<>>, back |-> Err]

\* --------------------------------------------------------- the cache pass

\* lines 98-102 without the seek of line 97: the bytes are read from where
\* the reader stands
CacheReadNoSeek(st, sp) ==
    LET hi == IF st.pos + (sp[2] - sp[1]) < Len(input)
              THEN st.pos + (sp[2] - sp[1]) ELSE Len(input)
    IN [buf |-> Slice(input, st.pos, hi), pos |-> hi]

\* lines 97-102: seek to the node's start and read exactly its bytes
CacheRead(st, sp) == [buf |-> Slice(input, sp[1], sp[2]), pos |-> sp[2]]

\* line 91: the entry for this node id is vacant
Vacant(st, id) == id \notin DOMAIN st.texts

\* one item of the internal query's captures (the body of lines 88-104):
\* node `id`, whose span is sp
CacheVisit(st, id, sp) ==
    LET st1 == [st EXCEPT !.n = @ + 1,
                          !.cap = [q |-> "internal", id |-> id, s |-> sp[1], e |-> sp[2]],
                          !.nodes = (id :> sp) @@ @]
    IN IF ~Vacant(st, id) THEN st1
       ELSE LET rd == CacheRead(st, sp)
            IN [st1 EXCEPT !.pos = rd.pos, !.texts = (id :> rd.buf) @@ @]

\* main without the rewind of line 123
RewindMissing(p) == p

\* line 123: reader.rewind()
Rewind(p) == 0

\* line 107 with the error dropped instead of returned
AfterCompileIgnored(ok) == "stream"

\* where main goes after Query::new(language, &query_source) at line 107
AfterCompile(ok) == IF ok THEN "stream" ELSE "fatal"

\* lines 107-123: the internal captures are exhausted; the user query is
\* compiled (`?` returns its error) and the reader is rewound
Compile(st, ok) ==
    LET st1 == [st EXCEPT !.compiled = IF ok THEN "ok" ELSE "error"] IN
    IF AfterCompile(ok) = "fatal" THEN [st1 EXCEPT !.pc = "fatal", !.err = "query"]
    ELSE [st1 EXCEPT !.pc = "stream", !.pos = Rewind(st.pos)]

\* ------------------------------------------------------- the rewrite loop

\* io::copy from reader.take(limit), or from the reader itself: the bytes
\* from the reader's position on, at most `limit` of them
CopyThrough(st, limit) ==
    LET hi == IF st.pos + limit < Len(input) THEN st.pos + limit ELSE Len(input)
        out == Slice(input, st.pos, hi)
    IN [st EXCEPT !.pos = hi,
                  !.stdout = @ \o out,
                  !.segs = Append(@, [k |-> "copy", lo |-> st.pos, hi |-> hi,
                                      len |-> Len(out)])]

\* line 141 without the test
DisorderedNever(pos, start_byte) == FALSE

\* line 141 off by one
DisorderedOffByOne(pos, start_byte) == pos > start_byte + 1

\* line 141: the capture starts before the position read at line 133
Disordered(pos, start_byte) == pos > start_byte

\* an arm without its seek: the reader stays at the span's start
SeekEndMissing(st, c) == st.pos

\* reader.seek(SeekFrom::Start(node.end_byte())), first line of every arm
\* but Order
SeekEnd(st, c) == c.e

\* a handler's replacement written: write!(writer, ...)
ReplacedAt(st, c, newpos, out) ==
    [st EXCEPT !.pos = newpos,
               !.stdout = @ \o out,
               !.segs = Append(@, [k |-> "repl", d |-> c.d, s |-> c.s, e |-> c.e,
                                   lo |-> st.pos, hi |-> newpos, len |-> Len(out)])]

\* anonymize with the reader moved on by the length of what was written
\* instead of to the node's end
AnonymizeSeekByOutput(st, c, r) ==
    IF c.d = "Order" THEN [st EXCEPT !.pc = "fatal", !.err = "anonymize"]
    ELSE LET out == Generate(c.d, r)
             to == IF st.pos + Len(out) < Len(input) THEN st.pos + Len(out)
                   ELSE Len(input)
         IN ReplacedAt(st, c, to, out)

\* fn anonymize, for capture c = [d, s, e] and the random draw r.  The Order
\* arm reads end - start bytes from where the reader stands; a short read or
\* any later `?` returns the error.
Anonymize(st, c, r) ==
    IF c.d # "Order" THEN ReplacedAt(st, c, SeekEnd(st, c), Generate(c.d, r))
    ELSE LET limit == c.e - c.s IN
         IF st.pos + limit > Len(input)
         THEN [st EXCEPT !.pos = Len(input), !.pc = "fatal", !.err = "anonymize"]
         ELSE LET buf == Slice(input, st.pos, st.pos + limit)
                  res == OrderRewrite(buf, r)
              IN IF res.ok THEN ReplacedAt(st, c, st.pos + limit, res.out)
                 ELSE [st EXCEPT !.pos = st.pos + limit, !.pc = "fatal",
                                 !.err = "anonymize"]

\* line 128 with a seek past the node in place of the bare `continue`
SkipPastNode(st, sp) == [st EXCEPT !.pos = sp[2], !.ignored = @ \cup {sp}]

\* line 128: `continue`; the capture has no directive and is dropped
Skip(st, sp) == [st EXCEPT !.ignored = @ \cup {sp}]

\* one capture of the user query (the body of lines 126-150): its label, its
\* node's span and the random draw its handler makes
Capture(st, label, sp, r) ==
    LET c == [q |-> "user", d |-> DirectiveFromStr(label), s |-> sp[1], e |-> sp[2]]
        st1 == [st EXCEPT !.n = @ + 1, !.cap = c]
    IN IF c.d = "None" THEN Skip(st1, sp)
       ELSE LET pos == st.pos
                st2 == [st1 EXCEPT !.recognized = @ + 1]
                st3 == IF pos < c.s THEN CopyThrough(st2, c.s - pos) ELSE st2
            IN IF Disordered(pos, c.s)
               THEN [st3 EXCEPT !.pc = "fatal", !.err = "unexpected capture node"]
               ELSE Anonymize(st3, c, r)

\* lines 153-155: the matches are exhausted; the rest of the file is copied
Finish(st) == [CopyThrough(st, Len(input) - st.pos) EXCEPT !.pc = "done"]

\* ----------------------------------------------------------------- actions

\* the dumps explored under Spec: every byte string over two letters
Alphabet == {97, 98}
Dumps == UNION {[1..k -> Alphabet] : k \in 0..MaxLen}

\* the internal query cursor yields a capture
CacheStep ==
    /\ run.pc = "cache"
    /\ run.n < MaxEvents
    /\ \E id \in NodeIds :
         \E sp \in (IF id \in DOMAIN run.nodes THEN {run.nodes[id]} ELSE Spans) :
            run' = CacheVisit(run, id, sp)
    /\ UNCHANGED <<input, cuts, cli_query, run2, codec>>

\* the internal query cursor is exhausted; without --query the query source
\* is the empty string, which compiles
CompileStep ==
    /\ run.pc = "cache"
    /\ \E ok \in (IF cli_query THEN BOOLEAN ELSE {TRUE}) : run' = Compile(run, ok)
    /\ UNCHANGED <<input, cuts, cli_query, run2, codec>>

\* the user query cursor yields a capture (the empty query yields none)
CaptureStep ==
    /\ run.pc = "stream"
    /\ cli_query
    /\ run.n < MaxEvents
    /\ \E label \in QueryLabels, sp \in Spans, r \in Randoms :
            run' = Capture(run, label, sp, r)
    /\ UNCHANGED <<input, cuts, cli_query, run2, codec>>

\* the user query cursor is exhausted
FinishStep ==
    /\ run.pc = "stream"
    /\ run' = Finish(run)
    /\ UNCHANGED <<input, cuts, cli_query, run2, codec>>

Init ==
    /\ input \in Dumps
    /\ cuts = 0..Len(input)
    /\ cli_query \in BOOLEAN
    /\ \E p \in 0..Len(input) : run = StartRun(p)
    /\ run2 = IdleRun
    /\ codec = IdleCodec

Next == CacheStep \/ CompileStep \/ CaptureStep \/ FinishStep

Spec == Init /\ [][Next]_vars

\* ---------------------------------------------- two runs, side by side
\* SpecPair runs main twice on the same dump with the same query: the query
\* cursors yield the same items to both runs, and each run makes its own
\* random draws.

PairCacheStep ==
    /\ run.pc = "cache"
    /\ run.n < MaxEvents
    /\ \E id \in NodeIds :
         \E sp \in (IF id \in DOMAIN run.nodes THEN {run.nodes[id]} ELSE Spans) :
            /\ run' = CacheVisit(run, id, sp)
            /\ run2' = IF run2.pc = "cache" THEN CacheVisit(run2, id, sp) ELSE run2
    /\ UNCHANGED <<input, cuts, cli_query, codec>>

PairCompileStep ==
    /\ run.pc = "cache"
    /\ \E ok \in (IF cli_query THEN BOOLEAN ELSE {TRUE}) :
            /\ run' = Compile(run, ok)
            /\ run2' = IF run2.pc = "cache" THEN Compile(run2, ok) ELSE run2
    /\ UNCHANGED <<input, cuts, cli_query, codec>>

PairCaptureStep ==
    /\ run.pc = "stream"
    /\ cli_query
    /\ run.n < MaxEvents
    /\ \E label \in QueryLabels, sp \in Spans, r1 \in Randoms, r2 \in Randoms :
            /\ run' = Capture(run, label, sp, r1)
            /\ run2' = IF run2.pc = "stream" THEN Capture(run2, label, sp, r2) ELSE run2
    /\ UNCHANGED <<input, cuts, cli_query, codec>>

PairFinishStep ==
    /\ run.pc = "stream"
    /\ run' = Finish(run)
    /\ run2' = IF run2.pc = "stream" THEN Finish(run2) ELSE run2
    /\ UNCHANGED <<input, cuts, cli_query, codec>>

InitPair ==
    /\ input \in Dumps
    /\ cuts = 0..Len(input)
    /\ cli_query \in BOOLEAN
    /\ \E p \in 0..Len(input) : run = StartRun(p) /\ run2 = StartRun(p)
    /\ codec = IdleCodec

NextPair == PairCacheStep \/ PairCompileStep \/ PairCaptureStep \/ PairFinishStep

SpecPair == InitPair /\ [][NextPair]_vars

\* ------------------------------------------------- dumps with an order
\* SpecOrder runs main on dumps that hold one quoted JSON document between a
\* one-byte prefix and a one-byte suffix; the tree's nodes start and end at
\* the file's ends and at the literal's.

\* x'{"customerDetails":{},"o":"a"}';
OrderDumpPlain ==
    <<120, 39, 123, 34, 99, 117, 115, 116, 111, 109, 101, 114, 68, 101, 116, 97,
      105, 108, 115, 34, 58, 123, 125, 44, 34, 111, 34, 58, 34, 97, 34, 125, 39, 59>>

\* x'{"customerDetails":1,"o":"<DEL>"}';   (the byte 0x7F inside a string)
OrderDumpDel ==
    <<120, 39, 123, 34, 99, 117, 115, 116, 111, 109, 101, 114, 68, 101, 116, 97,
      105, 108, 115, 34, 58, 49, 44, 34, 111, 34, 58, 34, 127, 34, 125, 39, 59>>

\* x'{"o":"a"}';   (no customerDetails)
OrderDumpBare == <<120, 39, 123, 34, 111, 34, 58, 34, 97, 34, 125, 39, 59>>

OrderDumps == {OrderDumpPlain, OrderDumpDel, OrderDumpBare}

InitOrder ==
    /\ input \in OrderDumps
    /\ cuts = {0, 1, Len(input) - 1, Len(input)}
    /\ cli_query \in BOOLEAN
    /\ \E p \in cuts : run = StartRun(p)
    /\ run2 = IdleRun
    /\ codec = IdleCodec

SpecOrder == InitOrder /\ [][Next]_vars

\* ------------------------------------------------- the codec on its own
\* SpecCodec encodes a raw string as MySqlString's Display does and parses
\* the literal back with MySqlString's FromStr.

\* a control byte, a tab, a quote, a backslash, a letter, DEL, a byte >= 0x80
CodecBytes == {1, 9, 39, 92, 97, 127, 195}

CodecEncode ==
    /\ codec.pc = "raw"
    /\ codec' = [codec EXCEPT !.pc = "encoded", !.text = Display(codec.raw)]
    /\ UNCHANGED <<input, cuts, cli_query, run, run2>>

CodecDecode ==
    /\ codec.pc = "encoded"
    /\ codec' = [codec EXCEPT !.pc = "decoded", !.back = FromStrMySql(codec.text)]
    /\ UNCHANGED <<input, cuts, cli_query, run, run2>>

InitCodec ==
    /\ input = <<>>
    /\ cuts = {0}
    /\ cli_query = FALSE
    /\ run = IdleRun
    /\ run2 = IdleRun
    /\ \E x \in UNION {[1..k -> CodecBytes] : k \in 0..MaxRaw} :
            codec = [IdleCodec EXCEPT !.pc = "raw", !.raw = x]

NextCodec == CodecEncode \/ CodecDecode

SpecCodec == InitCodec /\ [][NextCodec]_vars

\* ================================================================ properties

RECURSIVE SegOffset(_, _)
\* the number of output bytes written before segment k of a run
SegOffset(st, k) == IF k = 1 THEN 0 ELSE SegOffset(st, k - 1) + st.segs[k - 1].len

\* the output bytes segment k of a run wrote
SegBytes(st, k) ==
    SubSeq(st.stdout, SegOffset(st, k) + 1, SegOffset(st, k) + st.segs[k].len)

Segs(st) == 1..Len(st.segs)
Copies(st) == {k \in Segs(st) : st.segs[k].k = "copy"}
Repls(st) == {k \in Segs(st) : st.segs[k].k = "repl"}

\* a handler for directive d could have written bytes b for span sp
Produced(d, sp, b) ==
    IF d = "Order"
    THEN \E r \in Randoms :
            LET res == OrderRewrite(Slice(input, sp[1], sp[2]), r)
            IN res.ok /\ res.out = b
    ELSE \E r \in Randoms : Generate(d, r) = b

\* C1: when no --query is given, or the user query compiles and none of its
\* captures carries a directive label, the run does not end in an error, and
\* once it has ended the output is the input, byte for byte, from offset 0.
C1_IdentityCopy ==
    (run.pc \in {"done", "fatal"} /\ run.compiled = "ok" /\ run.recognized = 0)
        => (run.pc = "done" /\ run.stdout = input)

\* a run ended with nothing rewritten, after the cache pass had moved the
\* reader off offset 0 and a capture without directive had been skipped
C1_Witness ==
    /\ run.pc = "done"
    /\ run.recognized = 0
    /\ run.ignored # {}
    /\ Len(input) >= 2
    /\ \E id \in DOMAIN run.texts : run.nodes[id][2] > 0

\* C2: in a run that ended successfully the segments tile the input: the first
\* starts at offset 0, each starts where the one before ended, the last ends
\* at end of file; a verbatim segment wrote exactly the input bytes of its
\* range, a replaced segment covers exactly its capture's span and wrote what
\* the capture's handler produces; the output is the segments' bytes in order.
C2_Partition ==
    run.pc = "done" =>
        /\ run.segs # <<>>
        /\ run.segs[1].lo = 0
        /\ run.segs[Len(run.segs)].hi = Len(input)
        /\ \A k \in Segs(run) :
              /\ run.segs[k].lo <= run.segs[k].hi
              /\ k > 1 => run.segs[k].lo = run.segs[k - 1].hi
              /\ run.segs[k].k = "copy" =>
                    SegBytes(run, k) = Slice(input, run.segs[k].lo, run.segs[k].hi)
              /\ run.segs[k].k = "repl" =>
                    /\ run.segs[k].lo = run.segs[k].s
                    /\ run.segs[k].hi = run.segs[k].e
                    /\ Produced(run.segs[k].d, <<run.segs[k].s, run.segs[k].e>>,
                                SegBytes(run, k))
        /\ SegOffset(run, Len(run.segs) + 1) = Len(run.stdout)

\* a successful run with two replaced spans, one of them not empty, and a
\* verbatim segment that is not empty
C2_Witness ==
    /\ run.pc = "done"
    /\ Cardinality(Repls(run)) >= 2
    /\ \E k \in Repls(run) : run.segs[k].hi > run.segs[k].lo
    /\ \E k \in Copies(run) : run.segs[k].len > 0

\* the step is the rewrite loop's body on one capture
IsCapture == run.pc = "stream" /\ run'.n = run.n + 1

\* C3: a capture with a directive label that starts before the reader's
\* position ends the run with the error of line 142: its handler is not
\* invoked and nothing is written or read for it; and once a run has failed
\* nothing more happens (no capture is processed, no byte is written).
C3_FatalOnDisorder ==
    [][ /\ (IsCapture /\ run'.cap.d # "None" /\ run'.cap.s < run.pos)
            => /\ run'.pc = "fatal"
               /\ run'.err = "unexpected capture node"
               /\ run'.stdout = run.stdout
               /\ run'.segs = run.segs
               /\ run'.pos = run.pos
        /\ run.pc = "fatal" => run' = run ]_vars

\* a run that failed on a capture out of order after it had written output
C3_Witness ==
    /\ run.err = "unexpected capture node"
    /\ run.cap.s < run.pos
    /\ run.stdout # <<>>
    /\ Repls(run) # {}

\* offset o of the input was copied to the output verbatim by a run
CopiedAt(st, o) ==
    \E k \in Copies(st) :
        /\ st.segs[k].lo <= o /\ o < st.segs[k].hi
        /\ SegBytes(st, k)[o - st.segs[k].lo + 1] = input[o + 1]

\* offset o of the input lies inside a span a handler replaced
InReplacedSpan(st, o) == \E k \in Repls(st) : st.segs[k].s <= o /\ o < st.segs[k].e

\* a capture without directive changes nothing but the cursor's progress
IgnoredIsInert ==
    (IsCapture /\ run'.cap.d = "None")
        => /\ run'.pc = run.pc
           /\ run'.err = run.err
           /\ run'.pos = run.pos
           /\ run'.stdout = run.stdout
           /\ run'.segs = run.segs
           /\ run'.recognized = run.recognized

\* C4 as stated, its last part: in a run that ended successfully every byte of
\* the span of a capture without directive was copied to the output verbatim.
C4_SpanVerbatim ==
    run.pc = "done" =>
        \A sp \in run.ignored : \A o \in sp[1]..(sp[2] - 1) : CopiedAt(run, o)

\* C4, amended: a capture without directive raises no error and changes
\* neither the reader's position nor the output, and no handler runs for it;
\* in a run that ended successfully every byte of its span was copied to the
\* output verbatim unless it lies inside the span of a capture with a
\* directive, which that capture's handler replaced.
C4_IgnoredCapture ==
    /\ [](run.pc = "done" =>
            \A sp \in run.ignored : \A o \in sp[1]..(sp[2] - 1) :
                CopiedAt(run, o) \/ InReplacedSpan(run, o))
    /\ [][IgnoredIsInert]_vars

\* a successful run that skipped a capture whose span was partly copied and
\* partly replaced through another capture
C4_Witness ==
    /\ run.pc = "done"
    /\ \E sp \in run.ignored :
          /\ \E o \in sp[1]..(sp[2] - 1) : CopiedAt(run, o)
          /\ \E o \in sp[1]..(sp[2] - 1) : InReplacedSpan(run, o)

\* what a run did, the replacements' content left out
Shape(st) ==
    [k \in Segs(st) |->
        IF st.segs[k].k = "copy" THEN st.segs[k]
        ELSE [st.segs[k] EXCEPT !.len = 0]]

\* C5: two runs on the same dump with the same query, whatever each draws at
\* random, are at the same place after every step: same program point, same
\* error, same reader position, same verbatim copies and handler invocations
\* on the same spans; and every verbatim segment holds the same bytes in both
\* outputs.
C5_SameStructure ==
    /\ run.pc = run2.pc
    /\ run.err = run2.err
    /\ run.pos = run2.pos
    /\ run.n = run2.n
    /\ Shape(run) = Shape(run2)
    /\ \A k \in Copies(run) : SegBytes(run, k) = SegBytes(run2, k)

\* two successful runs whose outputs differ, with a verbatim segment
C5_Witness ==
    /\ run.pc = "done"
    /\ run2.pc = "done"
    /\ run.stdout # run2.stdout
    /\ \E k \in Copies(run) : run.segs[k].len > 0
    /\ Repls(run) # {}

\* C6: decoding the literal that encodes x gives x back.
C6_RoundTrip ==
    codec.pc = "decoded" => codec.back = [ok |-> TRUE, val |-> codec.raw]

\* the literal a segment holds, decoded and parsed
DecodedJson(b) ==
    LET lit == FromStrMySql(b) IN IF lit.ok THEN FromStrJson(lit.val) ELSE Err

\* C7: what the Order handler wrote for a span decodes to a JSON object with
\* the span's top-level keys, every field but customerDetails unchanged, and
\* customerDetails an object with exactly the seven keys, gender "male" or
\* "female", height and weight unsigned integers; the handler left the reader
\* at the span's end.
C7_OrderShape ==
    \A k \in Repls(run) : run.segs[k].d = "Order" =>
        LET old == DecodedJson(Slice(input, run.segs[k].s, run.segs[k].e))
            new == DecodedJson(SegBytes(run, k))
        IN /\ run.segs[k].lo = run.segs[k].s
           /\ run.segs[k].hi = run.segs[k].e
           /\ old.ok /\ old.val.t = "obj"
           /\ new.ok /\ new.val.t = "obj"
           /\ DOMAIN new.val.v = DOMAIN old.val.v
           /\ \A key \in DOMAIN old.val.v \ {K_customerDetails} :
                 new.val.v[key] = old.val.v[key]
           /\ LET cd == new.val.v[K_customerDetails]
              IN /\ cd.t = "obj"
                 /\ DOMAIN cd.v = {K_firstName, K_lastName, K_email, K_gender,
                                   K_height, K_weight, K_birthDate}
                 /\ cd.v[K_gender] \in {Str(S_male), Str(S_female)}
                 /\ cd.v[K_height].t = "num"
                 /\ cd.v[K_weight].t = "num"

\* C8: nothing is written, and no copy or handler runs, unless the user query
\* has compiled; a query that fails to compile ends the run in an error.
C8_NoOutputBeforeCompile ==
    /\ (run.stdout # <<>> \/ run.segs # <<>> \/ run.pc \in {"stream", "done"})
            => run.compiled = "ok"
    /\ run.compiled = "error" => (run.pc = "fatal" /\ run.err = "query")

\* a run that failed at the user query after a cache pass that read a node
C8_Witness ==
    /\ run.compiled = "error"
    /\ run.pc = "fatal"
    /\ run.texts # <<>>
    /\ Len(input) > 0

\* C9: in the output phase the reader's position never decreases; the
\* segments read disjoint ranges in increasing order, so no input byte is
\* copied twice; handlers run on captures in non-decreasing order of start.
C9_Monotone ==
    /\ [][run.pc = "stream" => run'.pos >= run.pos]_vars
    /\ [](\A i, j \in Segs(run) : i < j =>
              /\ run.segs[i].hi <= run.segs[j].lo
              /\ (run.segs[i].k = "repl" /\ run.segs[j].k = "repl")
                    => run.segs[i].s <= run.segs[j].s)

\* a successful run with two handler invocations, the reader moved by both
C9_Witness ==
    /\ run.pc = "done"
    /\ Cardinality(Repls(run)) >= 2
    /\ \A k \in Repls(run) : run.segs[k].hi > run.segs[k].lo

\* C10: texts holds one entry for each node the internal query captured, its
\* value the input bytes of the node's span; a node captured again changes
\* neither texts nor the reader's position; texts never changes once the
\* cache pass is over.
C10_Cache ==
    /\ [](/\ DOMAIN run.texts = DOMAIN run.nodes
          /\ \A id \in DOMAIN run.nodes :
                run.texts[id] = Slice(input, run.nodes[id][1], run.nodes[id][2]))
    /\ [][ /\ (run.pc = "cache" /\ run'.n = run.n + 1
                  /\ run'.cap.id \in DOMAIN run.texts)
              => (run'.texts = run.texts /\ run'.pos = run.pos)
           /\ run.pc # "cache" => run'.texts = run.texts ]_vars

\* a node captured twice during the cache pass, its text not empty and not at
\* the start of the file
C10_Witness ==
    /\ run.pc = "cache"
    /\ run.n >= 2
    /\ Cardinality(DOMAIN run.texts) = 1
    /\ \E id \in DOMAIN run.texts : run.texts[id] # <<>> /\ run.nodes[id][1] > 0

====
